---- MODULE Spec2Model ----
(***************************************************************************)
(* Multi-store product search: MultiStoreSearchService (searchAllStores,   *)
(* searchInStore), ScraperService (scrapeProducts, scrapeWithSelectors),   *)
(* PaginationService.detectPagination, PlaywrightService.scrapeUrl and the *)
(* OpenAIService filtering / ordering calls used by the coordinator.       *)
(***************************************************************************)
EXTENDS Integers, Sequences, FiniteSets, TLC

\* ------------------------------------------------------------------ bounds
NumStores == 3          \* descriptor files under config/stores
FleetItems == 2         \* valid items on every page of a fleet-search site
FleetPages == 2         \* pages a fleet-search site exposes
StoreItems == 10        \* valid items per page of the single-store fixture
MaxSitePages == 5       \* pages the single-store fixture exposes, at most
MaxBudget == 2          \* largest max_pages / maxPages value tried
MaxFetches == 6         \* cap on the page fetches of one scrape
MaxAttempts == 3        \* cap on the page.goto calls of one fetch
MaxTotal == 2           \* largest total-page count a site shows

\* -------------------------------------------------------- program constants
SortLimit == 50         \* sortProductsBySimilarity: allProducts.slice(0, 50)
AnalyzeLimit == 50      \* filters: at most 50 products are sent to the model

Stores == 1..NumStores
\* an optional value: <<>> when it is undefined, <<v>> when it is v
Undefined == <<>>
Some(v) == <<v>>
NoResult == [kind |-> "none"]

\* ------------------------------------------------------------ list helpers
RECURSIVE SumSeq(_)
SumSeq(q) == IF q = <<>> THEN 0 ELSE Head(q) + SumSeq(Tail(q))

RECURSIVE Flatten(_)
Flatten(qq) == IF qq = <<>> THEN <<>> ELSE Head(qq) \o Flatten(Tail(qq))

SliceNothing(q, n) == q
\* Array.prototype.slice(0, n), n >= 0
SliceTo(q, n) == SubSeq(q, 1, IF Len(q) < n THEN Len(q) ELSE n)

\* the stores of a set in ascending order (array order of searchUrls)
RECURSIVE OrderOf(_)
OrderOf(S) ==
    IF S = {} THEN <<>>
    ELSE LET m == CHOOSE x \in S : \A y \in S : x <= y
         IN <<m>> \o OrderOf(S \ {m})

\* ------------------------------------------------- texts, numbers, prices
\* a text is the sequence of its characters; ColonSign is the one character
\* U+20A1 (the colon currency sign)
ColonSign == "U+20A1"
DigitChars == <<"0", "1", "2", "3", "4", "5", "6", "7", "8", "9">>
IsDigit(c) == \E i \in 1..Len(DigitChars) : DigitChars[i] = c
DigitVal(c) == (CHOOSE i \in 1..Len(DigitChars) : DigitChars[i] = c) - 1

\* String.prototype.trim
RECURSIVE TrimStart(_)
TrimStart(str) ==
    IF str # <<>> /\ Head(str) = " " THEN TrimStart(Tail(str)) ELSE str
RECURSIVE TrimEnd(_)
TrimEnd(str) ==
    IF str # <<>> /\ str[Len(str)] = " "
    THEN TrimEnd(SubSeq(str, 1, Len(str) - 1)) ELSE str
Trim(str) == TrimEnd(TrimStart(str))

\* a number is <<n, k>>, standing for n / 10^k; NaN is the empty tuple
NaN == <<>>
Zero == <<0, 0>>
RECURSIVE Pow10(_)
Pow10(k) == IF k = 0 THEN 1 ELSE 10 * Pow10(k - 1)
RECURSIVE ToInt(_)
ToInt(ds) ==
    IF ds = <<>> THEN 0
    ELSE 10 * ToInt(SubSeq(ds, 1, Len(ds) - 1)) + DigitVal(ds[Len(ds)])
\* the number of digits of str from position i on
RECURSIVE DigitRun(_, _)
DigitRun(str, i) ==
    IF i <= Len(str) /\ IsDigit(str[i]) THEN 1 + DigitRun(str, i + 1) ELSE 0

\* where the parts of a decimal literal lie in str: ni integer digits, a dot,
\* nf fraction digits, an exponent mark at e, its ne digits from es on
Literal(str) ==
    LET ni == DigitRun(str, 1)
        hasDot == ni + 1 <= Len(str) /\ str[ni + 1] = "."
        nf == IF hasDot THEN DigitRun(str, ni + 2) ELSE 0
        e == ni + (IF hasDot THEN 1 + nf ELSE 0) + 1
        hasE == e <= Len(str) /\ str[e] \in {"e", "E"}
        signed == hasE /\ e + 1 <= Len(str) /\ str[e + 1] \in {"+", "-"}
        es == e + 1 + (IF signed THEN 1 ELSE 0)
        ne == IF hasE THEN DigitRun(str, es) ELSE 0
    IN  [ni |-> ni, hasDot |-> hasDot, nf |-> nf, e |-> e, hasE |-> hasE,
         negative |-> signed /\ str[e + 1] = "-", es |-> es, ne |-> ne]

\* parseFloat of a text that starts with neither blank nor sign: the longest
\* prefix that is a decimal literal, NaN when there is none
ParseFloat(str) ==
    LET l == Literal(str)
        digits == SubSeq(str, 1, l.ni) \o SubSeq(str, l.ni + 2, l.ni + 1 + l.nf)
        exponent == IF l.ne = 0 THEN 0
                    ELSE (IF l.negative THEN -1 ELSE 1)
                         * ToInt(SubSeq(str, l.es, l.es + l.ne - 1))
        shift == exponent - l.nf
    IN  IF l.ni + l.nf = 0 THEN NaN
        ELSE IF shift >= 0 THEN <<ToInt(digits) * Pow10(shift), 0>>
        ELSE <<ToInt(digits), -shift>>

\* x || 0 for a number x
OrZero(x) == IF x = NaN \/ x[1] = 0 THEN Zero ELSE x
Positive(x) == x[1] > 0
\* Math.round of a number that is not negative
Round(x) == (2 * x[1] + Pow10(x[2])) \div (2 * Pow10(x[2]))

\* /^\d+\.?\d*e[+-]?\d+$/i
IsScientific(str) ==
    LET l == Literal(str)
    IN  l.ni >= 1 /\ l.hasE /\ l.ne >= 1 /\ l.es + l.ne - 1 = Len(str)

\* priceStr.replace(/[^\d.]/g, '')
CleanPrice(str) == SelectSeq(str, LAMBDA c : IsDigit(c) \/ c = ".")

\* extractAttribute with attribute 'text': the trimmed text of the element
ExtractAttribute(text) == Trim(text)

\* SelectorExtractorService.extractPrice
ExtractPrice(text) ==
    LET priceStr == ExtractAttribute(text)
    IN  IF priceStr = <<>> THEN Zero
        ELSE IF IsScientific(Trim(priceStr)) THEN OrZero(ParseFloat(priceStr))
        ELSE OrZero(ParseFloat(CleanPrice(priceStr)))

\* extractProductList: the product read from one item node
ExtractProduct(item) ==
    [product_name |-> ExtractAttribute(item.title),
     price |-> ExtractPrice(item.priceText)]

KeepEvery(product) == TRUE
\* extractProductList: if (product.product_name && product.price > 0)
IsValidProduct(product) ==
    product.product_name # <<>> /\ Positive(product.price)

\* SelectorExtractorService.extractProductList on a page snapshot
ExtractRecords(page) ==
    IF ~page.container THEN <<>>
    ELSE SelectSeq([i \in 1..Len(page.items) |-> ExtractProduct(page.items[i])],
                   IsValidProduct)

\* SelectorExtractorService.normalizeProducts: the record made of one product
NormalizeProduct(product) ==
    [product_name |-> Trim(product.product_name),
     price |-> Round(product.price)]

NormalizeRecords(products) ==
    [i \in 1..Len(products) |-> NormalizeProduct(products[i])]

\* the texts tried: titles and prices as the page carries them
TitleTexts == {<<>>, <<" ">>, <<" ", "T", "V", " ">>}
ColonPrice == <<ColonSign, "4", "9", ".", "9", "5", "0">>
ScientificPrice == <<"2", ".", "4", "9", "9", "e", "5">>
NonNumericPrice == <<"N", "/", "A">>
FractionPrice == <<"0", ".", "4">>
PlainPrice == <<" ", "1", "5", "0", "0">>
PriceTexts == {<<>>, ColonPrice, ScientificPrice, NonNumericPrice,
               FractionPrice, PlainPrice}
MaxItems == 2           \* item nodes of a page snapshot, at most
ItemNodes == [title : TitleTexts, priceText : PriceTexts]
RECURSIVE SeqsUpTo(_, _)
SeqsUpTo(S, n) ==
    IF n = 0 THEN {<<>>}
    ELSE LET shorter == SeqsUpTo(S, n - 1)
         IN  shorter \cup {Append(q, x) : q \in shorter, x \in S}
Snapshots == [container : BOOLEAN, items : SeqsUpTo(ItemNodes, MaxItems)]
NoSnapshot == [container |-> FALSE, items |-> <<>>]

\* ------------------------------------------------------------- the fixture
\* one valid listing item of page p of site s; price falls with the position
Item(s, p, k, n) == [site |-> s, page |-> p, idx |-> k, price |-> n - k + 1,
                     normalized |-> FALSE]

\* SelectorExtractorService.extractProductList: the valid items of a page
ExtractProductList(s, p, n) == [k \in 1..n |-> Item(s, p, k, n)]

\* SelectorExtractorService.normalizeProducts: one record out per record in
NormalizeProducts(q) == [i \in 1..Len(q) |-> [q[i] EXCEPT !.normalized = TRUE]]

\* JavaScript truthiness of an optional boolean and of an optional URL
TruthyFlag(v) == v # Undefined /\ v[1]
TruthyUrl(v) == v # Undefined

\* reading property f of object o: undefined when o has no such property
Field(o, f) == IF f \in DOMAIN o THEN Some(o[f]) ELSE Undefined

\* ------------------------------------------------------------- descriptors
\* "ok": the descriptor loads by domain and by the host of its search URL;
\* "hostUnknown": it loads by domain, but getConfigFromUrl finds none for the
\* host its url_template names; "missing": getConfig(domain) returns null
DescriptorStates == {"ok", "hostUnknown", "missing"}

\* scraping.pagination of a descriptor (max_pages = 0: no max_pages key)
PaginationConfigs ==
    [present : BOOLEAN, enabled : BOOLEAN, max_pages : 0..MaxBudget]

\* ---------------------------------------------------------------- the state
VARIABLES
    descriptor,      \* [Stores -> DescriptorStates]
    storeName,       \* config.name of every descriptor; the names are distinct
                     \* (step 7 of searchAllStores joins the lists by name)
    pagination,      \* scraping.pagination of every descriptor
    site,            \* the remote site: [pages, items, total, cycle]; total is
                     \* the number under total_pages_selector, 0 when there is
                     \* none; the last page of a cycle links to the first
    entry,           \* "none" | "searchAllStores" | "searchInStore"
    options,         \* SearchOptions of the call
    tasks,           \* the stores a scrape was started for
    pc,              \* position of every store's scrape task
    pageNumber,      \* scrapeWithSelectors: pageNumber
    currentUrl,      \* scrapeWithSelectors: currentUrl, as a page of the site
    allProducts,     \* scrapeWithSelectors: allProducts
    fetches,         \* calls of PlaywrightService.scrapeUrl, per store
    processed,       \* loop bodies of scrapeWithSelectors that reached step 6:
                     \* pages fetched, extracted and decided on, per store
    timedOut,        \* the store's navigation failed under both strategies
    navAttempts,     \* scrapeUrl: the page.goto calls of the store's running fetch
    browser,         \* PlaywrightService.browser: 0 is null, 1 a launched browser
                     \* (the one whose launch answered last)
    launches,        \* calls of chromium.launch
    storeResults,    \* the StoreSearchResult of every finished task
    phase,           \* position of the coordinator
    successfulStores,
    totalProducts,
    filteredResults,
    stageResults,    \* the array a running filter stage is filling
    pending,         \* stores whose filter call has not answered yet
    filterSummary,
    llmFailed,       \* the model calls behind filteredResults that failed
    response,        \* what the entry point returned, or that it threw
    html,            \* extractProductList: the page snapshot it is given
    xpc,             \* position of the extraction of html
    extracted,       \* what extractProductList returned
    normalized,      \* what normalizeProducts made of it
    fpc,             \* position of the scrapeUrl call that is looked at step by step
    fopts,           \* options of that call
    dom,             \* the selectors the page it loads matches
    openContexts,    \* browser contexts created and not closed
    waited,          \* outcomes of the waitForSelector calls on waitForSelectors
    delayed,         \* milliseconds of the flat waitForTimeout, 0 when not applied
    totalHeight,     \* autoScroll: totalHeight
    scrollCount,     \* autoScroll: scrollCount
    docHeight,       \* document.body.scrollHeight of the page
    scrollHeight,    \* autoScroll: scrollHeight as read by the last tick
    fresult,         \* what the scrapeUrl call returned or threw
    llmConfig,       \* LLMConfig.config: what every operation maps to
    httpStatus       \* status of the last answer of the llm-config routes

vars == <<descriptor, storeName, pagination, site, entry, options, tasks, pc,
          pageNumber, currentUrl, allProducts, fetches, processed, timedOut,
          navAttempts, browser, launches, storeResults,
          phase, successfulStores, totalProducts, filteredResults,
          stageResults, pending, filterSummary, llmFailed, response,
          html, xpc, extracted, normalized,
          fpc, fopts, dom, openContexts, waited, delayed, totalHeight,
          scrollCount, docHeight, scrollHeight, fresult, llmConfig, httpStatus>>

fixture == <<descriptor, storeName, pagination, site>>
extractVars == <<html, xpc, extracted, normalized>>
scrollVars == <<totalHeight, scrollCount, docHeight, scrollHeight>>
fetchVars == <<fpc, fopts, dom, openContexts, waited, delayed, scrollVars, fresult>>
configVars == <<llmConfig, httpStatus>>
searchVars == <<descriptor, storeName, pagination, site, entry, options, tasks,
                pc, pageNumber, currentUrl, allProducts, fetches, processed,
                timedOut, navAttempts, browser, launches, storeResults, phase,
                successfulStores, totalProducts, filteredResults, stageResults,
                pending, filterSummary, llmFailed, response>>
scrapeVars == <<pc, pageNumber, currentUrl, allProducts, fetches, processed, timedOut,
                navAttempts, browser, launches, storeResults>>
stageVars == <<successfulStores, totalProducts, filteredResults,
               stageResults, pending, filterSummary, llmFailed>>

\* --------------------------------------------------------------- pagination
\* the remote page p of a site carries a "next" control unless it is the last
\* page of a site that is not a cycle
HasNextButton(st, p) == p < st.pages \/ st.cycle

\* the page the "next" control of page p links to
NextPageOf(st, p) == IF p < st.pages THEN p + 1 ELSE 1

\* PaginationService.detectPagination on page p of the site
DetectPagination(cfg, st, p) ==
    IF ~cfg.enabled THEN [hasNextPage |-> FALSE]
    ELSE IF ~HasNextButton(st, p) THEN [hasNextPage |-> FALSE]
    ELSE [hasNextPage |-> TRUE, nextPageUrl |-> NextPageOf(st, p),
          currentPage |-> Some(p),
          totalPages |-> IF st.total = 0 THEN Undefined ELSE Some(st.total)]

\* scrapeWithSelectors: config.scraping.pagination?.enabled
PaginationEnabled(cfg) == IF cfg.present THEN Some(cfg.enabled) ELSE Undefined

ReadNextPageUrl(info) == Field(info, "nextPageUrl")
\* scrapeWithSelectors reads paginationInfo.nextUrl
ReadNextUrl(info) == Field(info, "nextUrl")

FollowEveryNextLink(cfg, st, p) ==
    IF HasNextButton(st, p) THEN Some(NextPageOf(st, p)) ELSE Undefined
\* scrapeWithSelectors, steps 4 to 6 of the loop body: the page to fetch next,
\* or Undefined when the loop breaks
NextPageToFetch(cfg, st, p) ==
    IF ~TruthyFlag(PaginationEnabled(cfg)) THEN Undefined
    ELSE LET paginationInfo == DetectPagination(cfg, st, p)
         IN IF paginationInfo.hasNextPage
               /\ TruthyUrl(ReadNextUrl(paginationInfo))
            THEN ReadNextUrl(paginationInfo)
            ELSE Undefined

\* ------------------------------------------------------------ scrapeProducts
NoConfigMessage == "No existe configuracion para este dominio"
FailedToScrape == "Failed to scrape"

\* scrapeProducts throws (no descriptor for the host of the URL)
Threw(msg) == [threw |-> TRUE, message |-> msg]
\* scrapeProducts: the catch around scrapeWithSelectors returns this
ScrapeFailed(msg) ==
    [threw |-> FALSE, success |-> FALSE, products |-> <<>>, totalFound |-> 0,
     error |-> Some(msg)]
\* the same with an empty extraction treated as an error
ScrapeEmptyThrows(raw) ==
    IF raw = <<>> THEN Threw("Sin productos")
    ELSE [threw |-> FALSE, success |-> TRUE, products |-> NormalizeProducts(raw),
          totalFound |-> Len(raw), error |-> Undefined]
\* scrapeWithSelectors: the result after the loop
ScrapeSucceeded(raw) ==
    [threw |-> FALSE, success |-> TRUE, products |-> NormalizeProducts(raw),
     totalFound |-> Len(raw), error |-> Undefined]

\* the same without the catch: the task's promise rejects
StoreOutcomeUncaught(name, s, r) ==
    IF r.threw
    THEN [kind |-> "rejected", message |-> r.message]
    ELSE [kind |-> "store", store |-> name, domain |-> s,
          products |-> r.products, count |-> Len(r.products),
          success |-> TRUE, error |-> Undefined]
\* the same with a catch branch that leaves `error` out
StoreOutcomeNoError(name, s, r) ==
    IF r.threw
    THEN [kind |-> "store", store |-> name, domain |-> s, products |-> <<>>,
          count |-> 0, success |-> FALSE, error |-> Undefined]
    ELSE [kind |-> "store", store |-> name, domain |-> s,
          products |-> r.products, count |-> Len(r.products),
          success |-> TRUE, error |-> Undefined]
\* the try/catch around scrapeProducts in searchAllStores and in searchInStore
StoreOutcome(name, s, r) ==
    IF r.threw
    THEN [kind |-> "store", store |-> name, domain |-> s, products |-> <<>>,
          count |-> 0, success |-> FALSE, error |-> Some(r.message)]
    ELSE [kind |-> "store", store |-> name, domain |-> s,
          products |-> r.products, count |-> Len(r.products),
          success |-> TRUE, error |-> Undefined]

\* ------------------------------------------------------ the language model
\* what one chat-completion call can do: fail (the call throws or times out,
\* the answer has no content, the content is not JSON), or answer with a list
\* of 1-based indices into the n products it was shown
LLMFailures == {"throw", "noContent", "badJSON"}
LLMAnswers == {"identity", "reverse", "first", "dup", "oob"}
LLMReplies == LLMFailures \cup LLMAnswers

Indices(reply, n) ==
    CASE reply = "identity" -> [i \in 1..n |-> i]
      [] reply = "reverse"  -> [i \in 1..n |-> n + 1 - i]
      [] reply = "first"    -> <<1>>
      [] reply = "dup"      -> <<1, 1>>
      [] OTHER              -> <<n + 1>>

\* indices.map(idx => arr[idx - 1]).filter(p => p !== undefined)
MapIndices(indices, arr) ==
    LET valid == SelectSeq(indices, LAMBDA i : i \in 1..Len(arr))
    IN  [j \in 1..Len(valid) |-> arr[valid[j]]]

\* Array.prototype.sort((a, b) => a.price - b.price): stable, ascending
RECURSIVE SortByPrice(_)
SortByPrice(q) ==
    IF q = <<>> THEN <<>>
    ELSE LET x == q[Len(q)]
             rest == SortByPrice(SubSeq(q, 1, Len(q) - 1))
             before == SelectSeq(rest, LAMBDA y : y.price <= x.price)
             after == SelectSeq(rest, LAMBDA y : y.price > x.price)
         IN  before \o <<x>> \o after

\* OpenAIService.filterProductsByRelevance (lists longer than AnalyzeLimit are
\* cut to their first AnalyzeLimit products, the fallback of the pre-filter)
FilterProductsByRelevance(products, topN, reply) ==
    LET productsToAnalyze ==
            IF Len(products) > AnalyzeLimit
            THEN SliceTo(products, AnalyzeLimit) ELSE products
    IN  IF reply \in LLMFailures
        THEN [threw |-> FALSE, failed |-> TRUE,
              products |-> SliceTo(products, topN)]
        ELSE [threw |-> FALSE, failed |-> FALSE,
              products |->
                 SortByPrice(SliceTo(
                     MapIndices(Indices(reply, Len(productsToAnalyze)),
                                productsToAnalyze), topN))]

\* OpenAIService.applyNaturalLanguageFilter
ApplyNaturalLanguageFilter(products, reply) ==
    LET productsToAnalyze == SliceTo(products, AnalyzeLimit)
    IN  IF reply \in LLMFailures
        THEN [threw |-> FALSE, failed |-> TRUE, products |-> products]
        ELSE [threw |-> FALSE, failed |-> FALSE,
              products |-> MapIndices(Indices(reply, Len(productsToAnalyze)),
                                      productsToAnalyze)]

\* sortProductsBySimilarity: all products, each tagged with its store's name
TagAll(storeProducts) ==
    Flatten([i \in 1..Len(storeProducts) |->
               [j \in 1..Len(storeProducts[i].products) |->
                  [product |-> storeProducts[i].products[j],
                   storeName |-> storeProducts[i].store]]])

SortRethrows(storeProducts, reply) ==
    [threw |-> TRUE, failed |-> TRUE, called |-> TRUE, stores |-> storeProducts]
\* sortProductsBySimilarity: what its catch block (and the no-content branch)
\* gives back
SortFallback(storeProducts, reply) ==
    [threw |-> FALSE, failed |-> TRUE, called |-> TRUE, stores |-> storeProducts]

\* OpenAIService.sortProductsBySimilarity
SortProductsBySimilarity(storeProducts, reply) ==
    LET allProds == TagAll(storeProducts)
        productsToSort == SliceTo(allProds, SortLimit)
        sortedProducts ==
            MapIndices(Indices(reply, Len(productsToSort)), productsToSort)
        ordered(name) ==
            LET mine == SelectSeq(sortedProducts, LAMBDA t : t.storeName = name)
            IN  [j \in 1..Len(mine) |-> mine[j].product]
    IN  IF allProds = <<>>
        THEN [threw |-> FALSE, failed |-> FALSE, called |-> FALSE,
              stores |-> storeProducts]
        ELSE IF reply \in LLMFailures
        THEN SortFallback(storeProducts, reply)
        ELSE [threw |-> FALSE, failed |-> FALSE, called |-> TRUE,
              stores |->
                [i \in 1..Len(storeProducts) |->
                   [store |-> storeProducts[i].store,
                    products |->
                       IF Len(ordered(storeProducts[i].store)) > 0
                       THEN ordered(storeProducts[i].store)
                       ELSE storeProducts[i].products]]]

\* ------------------------------------------- searchAllStores after the scrape
\* steps 5 and 6: what one store's entry of the filtered array becomes
WithFiltered(storeResult, filtered) ==
    IF filtered.threw THEN storeResult
    ELSE [storeResult EXCEPT !.products = filtered.products,
                             !.count = Len(filtered.products)]

\* storeResults.filter(r => r.success) and r.count, over the entries the
\* array holds
Succeeded(r) == r.kind = "store" /\ r.success
CountOf(r) == IF r.kind = "store" THEN r.count ELSE 0

\* the stores steps 5 and 6 send to the model
Eligible(results, S) ==
    {s \in S : Succeeded(results[s]) /\ Len(results[s].products) # 0}

\* step 7: sortedResults.find(s => s.store === r.store), then the spread
WithSorted(r, sortedResults) ==
    LET hits == {i \in 1..Len(sortedResults) : sortedResults[i].store = r.store}
    IN  IF hits = {} THEN r
        ELSE LET first == CHOOSE i \in hits : \A j \in hits : i <= j
             IN  [r EXCEPT !.products = sortedResults[first].products]

\* the object searchAllStores returns
FleetResult(finalResults, successful, opts, summary) ==
    [kind |-> "fleet",
     totalStores |-> Len(finalResults),
     successfulStores |-> successful,
     totalProducts |-> SumSeq([i \in 1..Len(finalResults) |-> finalResults[i].count]),
     stores |-> finalResults,
     filtered |-> (opts.topN # 0 \/ opts.filter),
     filterSummary |-> summary]

\* ------------------------------------------------ one scrapeUrl call, closely
MaxSelectors == 2       \* entries of waitForSelectors, at most
MaxHeight == 5500       \* the document stops growing at this height (pixels)
Growth == 250           \* pixels a lazy load adds to the document

Distance == 200         \* autoScroll: const distance = 200
MaxScrolls == 20        \* autoScroll: const maxScrolls = 20
DefaultWaitTime == 3000 \* scrapeUrl: options?.waitTime || 3000

SelectorNames == {".product", ".price"}

\* the options scrapeUrl is called with; waitTime 0 stands for none given, and
\* a waitTime is only tried where it is read (no waitForSelectors)
FetchOptionSets ==
    {o \in [waitForSelectors : SeqsUpTo(SelectorNames, MaxSelectors),
            waitTime : {0, 5000},
            scroll : {Undefined, Some(TRUE), Some(FALSE)},
            selector : {Undefined, Some(".price")}] :
        o.waitForSelectors # <<>> => o.waitTime = 0}

\* what a scrapeUrl call has to give back so far: nothing yet ("none"), an
\* error on its way to the catch block ("error"), the ScrapedContent it is
\* building or has returned, or the error it threw ("rejected")
FetchResult(kind, at, content, text) ==
    [kind |-> kind, at |-> at, html |-> content, text |-> text]
NoFetchResult == FetchResult("none", "", Undefined, Undefined)

\* no scrapeUrl call is looked at step by step
NoFetch ==
    /\ fpc = "off"
    /\ fopts = [waitForSelectors |-> <<>>, waitTime |-> 0,
                scroll |-> Undefined, selector |-> Undefined]
    /\ dom = {}
    /\ openContexts = 0
    /\ waited = <<>>
    /\ delayed = 0
    /\ totalHeight = 0
    /\ scrollCount = 0
    /\ docHeight = 0
    /\ scrollHeight = 0
    /\ fresult = NoFetchResult

\* ------------------------------------------------------------- LLMConfig
\* enum LLMOperation, enum LLMProvider
LLMOperations == {"filter_by_relevance", "sort_by_similarity",
                  "apply_natural_language_filter", "enrich_product"}
LLMProviders == {"openai", "gemini"}

\* what config[operation] holds: an OperationConfig object, or a string
OperationConfig(provider, model) ==
    [kind |-> "object", provider |-> provider, model |-> model]
StringValue(str) == [kind |-> "string", value |-> str]

DefaultModel(operation) ==
    IF operation = "filter_by_relevance"
    THEN "gemini-2.5-flash" ELSE "gemini-2.5-flash-lite"

\* const defaultConfig
DefaultConfig ==
    [operation \in LLMOperations |->
        OperationConfig(Some("gemini"), Some(DefaultModel(operation)))]

\* new LLMConfig(): this.config = { ...defaultConfig }
NewLLMConfig ==
    /\ llmConfig = DefaultConfig
    /\ httpStatus = 0

\* ------------------------------------------------------------------ Init
MaxTopN == 1            \* largest topN tried
MaxCallPages == 1       \* largest per-call maxPages tried

\* the options of a call (0: not given). The page budget is only handed to the
\* scrape and the filters only run after it, so a call is tried with a page
\* budget or with filters.
SearchOptionSets ==
    {o \in [topN : 0..MaxTopN, filter : BOOLEAN, maxPages : 0..MaxCallPages] :
        o.maxPages = 0 \/ (o.topN = 0 /\ ~o.filter)}

PaginationOn == [present |-> TRUE, enabled |-> TRUE, max_pages |-> 0]
PaginationAbsent == [present |-> FALSE, enabled |-> FALSE, max_pages |-> 0]

\* several descriptors, at most one of them unusable; every site alike:
\* FleetPages pages of FleetItems items
FleetFixture ==
    /\ descriptor \in {f \in [Stores -> DescriptorStates] :
                          Cardinality({s \in Stores : f[s] # "ok"}) <= 1}
    /\ storeName = [s \in Stores |-> s]
    /\ pagination = [s \in Stores |-> PaginationOn]
    /\ site = [s \in Stores |->
                  [pages |-> FleetPages, items |-> FleetItems, total |-> 0,
                   cycle |-> FALSE]]

\* one descriptor only, against sites of up to MaxSitePages pages
SingleFixture ==
    /\ descriptor \in {f \in [Stores -> DescriptorStates] :
                          \A s \in Stores \ {1} : f[s] = "missing"}
    /\ storeName = [s \in Stores |-> s]
    /\ \E cfg \in {c \in PaginationConfigs : c.present} \cup {PaginationAbsent} :
          pagination = [s \in Stores |-> cfg]
    /\ \E n \in 1..MaxSitePages, k \in {0, StoreItems}, m \in 0..MaxTotal :
          site = [s \in Stores |->
                    [pages |-> n, items |-> k, total |-> m, cycle |-> FALSE]]

\* nothing has been called yet
Idle ==
    /\ entry = "none"
    /\ options = [topN |-> 0, filter |-> FALSE, maxPages |-> 0]
    /\ tasks = {}
    /\ pc = [s \in Stores |-> "idle"]
    /\ pageNumber = [s \in Stores |-> 0]
    /\ currentUrl = [s \in Stores |-> 0]
    /\ allProducts = [s \in Stores |-> <<>>]
    /\ fetches = [s \in Stores |-> 0]
    /\ processed = [s \in Stores |-> 0]
    /\ timedOut = [s \in Stores |-> FALSE]
    /\ navAttempts = [s \in Stores |-> <<>>]
    /\ browser = 0
    /\ launches = 0
    /\ storeResults = [s \in Stores |-> NoResult]
    /\ phase = "idle"
    /\ successfulStores = 0
    /\ totalProducts = 0
    /\ filteredResults = [s \in Stores |-> NoResult]
    /\ stageResults = [s \in Stores |-> NoResult]
    /\ pending = {}
    /\ filterSummary = Undefined
    /\ llmFailed = {}
    /\ response = NoResult

NoExtraction ==
    /\ xpc = "off"
    /\ html = NoSnapshot
    /\ extracted = <<>>
    /\ normalized = <<>>

Init ==
    /\ FleetFixture \/ SingleFixture
    /\ Idle
    /\ NoExtraction
    /\ NoFetch
    /\ NewLLMConfig

\* ------------------------------------------------------------- scrapeUrl
\* the first page.goto of a fetch
FirstAttempt == <<[waitUntil |-> "domcontentloaded", outcome |-> "pending"]>>

\* the last page.goto of the fetch ends with outcome o
Ended(attempts, o) ==
    [attempts EXCEPT ![Len(attempts)] = [@ EXCEPT !.outcome = o]]

RetryAgain(attempts) == Some("networkidle")
\* scrapeUrl, after a page.goto failed: the catch of the first goto tries
\* 'networkidle'; a failure of that one reaches the outer catch, which throws
NextStrategy(attempts) ==
    IF Len(attempts) = 1 THEN Some("networkidle") ELSE Undefined

\* ---------------------------------------------------- starting a store scrape
\* scrapeProducts up to its first await: without a descriptor for the host of
\* the URL it throws at once; otherwise scrapeWithSelectors calls scrapeUrl for
\* page 1, whose initialize() launches a browser when this.browser is null.
\* The callbacks of searchUrls.map run one after the other without an await
\* in between, so each of them reads the same this.browser.
Started(S) ==
    LET ready == {s \in S : descriptor[s] = "ok"}
    IN
    /\ pc' = [s \in Stores |->
                IF s \notin S THEN pc[s]
                ELSE IF descriptor[s] # "ok" THEN "done"
                ELSE IF browser = 0 THEN "launch" ELSE "goto"]
    /\ storeResults' = [s \in Stores |->
                IF s \in S /\ descriptor[s] # "ok"
                THEN StoreOutcome(storeName[s], s, Threw(NoConfigMessage))
                ELSE storeResults[s]]
    /\ fetches' = [s \in Stores |-> IF s \in ready THEN 1 ELSE fetches[s]]
    /\ launches' = IF browser = 0 THEN launches + Cardinality(ready) ELSE launches
    /\ navAttempts' = [s \in Stores |->
                IF s \in ready /\ browser # 0 THEN FirstAttempt ELSE navAttempts[s]]
    /\ pageNumber' = [s \in Stores |-> IF s \in S THEN 1 ELSE pageNumber[s]]
    /\ currentUrl' = [s \in Stores |-> IF s \in S THEN 1 ELSE currentUrl[s]]
    /\ UNCHANGED <<allProducts, processed, timedOut, browser>>

\* MultiStoreSearchService.searchAllStores, up to `await Promise.all`
SearchAllStores(opts) ==
    /\ phase = "idle"
    /\ entry' = "searchAllStores"
    /\ options' = opts
    /\ tasks' = {s \in Stores : descriptor[s] # "missing"}
    /\ Started({s \in Stores : descriptor[s] # "missing"})
    /\ phase' = "scraping"
    /\ UNCHANGED <<fixture, extractVars, fetchVars, configVars, stageVars, response>>

\* MultiStoreSearchService.searchInStore, up to `await scrapeProducts`
SearchInStore(domain) ==
    /\ phase = "idle"
    /\ entry' = "searchInStore"
    /\ IF descriptor[domain] = "missing"
       THEN /\ phase' = "threw"
            /\ response' = [kind |-> "rejected", message |-> NoConfigMessage]
            /\ UNCHANGED <<tasks, scrapeVars>>
       ELSE /\ phase' = "scraping"
            /\ tasks' = {domain}
            /\ Started({domain})
            /\ UNCHANGED response
    /\ UNCHANGED <<fixture, extractVars, fetchVars, configVars, options, stageVars>>

\* the scrape task of store s settles with what scrapeProducts gave
Settle(s, r) ==
    /\ pc' = [pc EXCEPT ![s] = "done"]
    /\ storeResults' = [storeResults EXCEPT ![s] = StoreOutcome(storeName[s], s, r)]

\* PlaywrightService.initialize: chromium.launch answers the call made for
\* store s and is assigned to this.browser; scrapeUrl opens a context and a
\* page on this.browser and calls page.goto
Launched(s) ==
    /\ pc[s] = "launch"
    /\ browser' = 1
    /\ pc' = [pc EXCEPT ![s] = "goto"]
    /\ navAttempts' = [navAttempts EXCEPT ![s] = FirstAttempt]
    /\ UNCHANGED <<fixture, extractVars, fetchVars, configVars, entry, options, tasks, pageNumber, currentUrl,
                   allProducts, fetches, processed, timedOut, launches,
                   storeResults, phase, stageVars, response>>

\* a page.goto of store s ends: the page is there, or the next strategy is
\* tried, or scrapeUrl throws and scrapeProducts returns its failure result
Navigated(s, ok) ==
    IF ok
    THEN /\ pc' = [pc EXCEPT ![s] = "render"]
         /\ navAttempts' = [navAttempts EXCEPT ![s] = Ended(@, "ok")]
         /\ UNCHANGED <<timedOut, storeResults>>
    ELSE LET failed == Ended(navAttempts[s], "failed")
             strategy == NextStrategy(failed)
         IN  IF strategy # Undefined
             THEN /\ pc' = [pc EXCEPT ![s] = "fallback"]
                  /\ navAttempts' = [navAttempts EXCEPT ![s] =
                         Append(failed, [waitUntil |-> strategy[1],
                                         outcome |-> "pending"])]
                  /\ UNCHANGED <<timedOut, storeResults>>
             ELSE /\ timedOut' = [timedOut EXCEPT ![s] = TRUE]
                  /\ navAttempts' = [navAttempts EXCEPT ![s] = <<>>]
                  /\ Settle(s, ScrapeFailed(FailedToScrape))

GotoNotAwaited(s) ==
    /\ pc[s] = "goto"
    /\ fetches[s] < MaxFetches
    /\ fetches' = [fetches EXCEPT ![s] = @ + 1]
    /\ UNCHANGED <<fixture, extractVars, fetchVars, configVars, entry, options, tasks, pc, pageNumber,
                   currentUrl, allProducts, processed, timedOut, navAttempts,
                   browser, launches, storeResults, phase, stageVars, response>>
\* PlaywrightService.scrapeUrl: page.goto with waitUntil 'domcontentloaded'
Goto(s) ==
    /\ pc[s] = "goto"
    /\ \E ok \in BOOLEAN : Navigated(s, ok)
    /\ UNCHANGED <<fixture, extractVars, fetchVars, configVars, entry, options, tasks, pageNumber, currentUrl,
                   allProducts, fetches, processed, browser, launches, phase,
                   stageVars, response>>

\* PlaywrightService.scrapeUrl: the fallback page.goto with 'networkidle'
Fallback(s) ==
    /\ pc[s] = "fallback"
    /\ Len(navAttempts[s]) <= MaxAttempts
    /\ \E ok \in BOOLEAN : Navigated(s, ok)
    /\ UNCHANGED <<fixture, extractVars, fetchVars, configVars, entry, options, tasks, pageNumber, currentUrl,
                   allProducts, fetches, processed, browser, launches, phase,
                   stageVars, response>>

\* scrapeUrl returns the page; scrapeWithSelectors extracts it, decides on the
\* next page and either returns or, after the pause between pages, calls
\* scrapeUrl for the next page
PageLoaded(s) ==
    /\ pc[s] = "render"
    /\ LET products == ExtractProductList(s, currentUrl[s], site[s].items)
           all == allProducts[s] \o products
           next == NextPageToFetch(pagination[s], site[s], currentUrl[s])
       IN  /\ allProducts' = [allProducts EXCEPT ![s] = all]
           /\ processed' = [processed EXCEPT ![s] = @ + 1]
           /\ IF next = Undefined
              THEN /\ Settle(s, ScrapeSucceeded(all))
                   /\ navAttempts' = [navAttempts EXCEPT ![s] = <<>>]
                   /\ UNCHANGED <<pageNumber, currentUrl, fetches>>
              ELSE /\ fetches[s] < MaxFetches
                   /\ pc' = [pc EXCEPT ![s] = "goto"]
                   /\ currentUrl' = [currentUrl EXCEPT ![s] = next[1]]
                   /\ pageNumber' = [pageNumber EXCEPT ![s] = @ + 1]
                   /\ fetches' = [fetches EXCEPT ![s] = @ + 1]
                   /\ navAttempts' = [navAttempts EXCEPT ![s] = FirstAttempt]
                   /\ UNCHANGED storeResults
    /\ UNCHANGED <<fixture, extractVars, fetchVars, configVars, entry, options, tasks, timedOut, browser, launches,
                   phase, stageVars, response>>

\* searchInStore returns the outcome of its one scrape
StoreReturn ==
    /\ entry = "searchInStore"
    /\ phase = "scraping"
    /\ \A s \in tasks : pc[s] = "done"
    /\ \E s \in tasks : response' = storeResults[s]
    /\ phase' = "returned"
    /\ UNCHANGED <<fixture, extractVars, fetchVars, configVars, entry, options, tasks, scrapeVars, stageVars>>

TaskStep(s) == Launched(s) \/ Goto(s) \/ Fallback(s) \/ PageLoaded(s)

\* a filter stage begins: stores without products keep their entry, the others
\* wait for the model
StageBegins(results) ==
    /\ stageResults' = results
    /\ pending' = Eligible(results, tasks)
    /\ llmFailed' = {}

\* Promise.race in the place of Promise.all: the first task to settle
FirstSettled == \E s \in tasks : pc[s] = "done"
\* await Promise.all(scrapePromises): every task has returned its outcome
AllSettled == \A s \in tasks : pc[s] = "done"

\* searchAllStores: Promise.all(scrapePromises) settles; totals are computed
\* (step 4) and the code runs on to its next await
Barrier ==
    /\ entry = "searchAllStores"
    /\ phase = "scraping"
    /\ \/ AllSettled
       \/ \E s \in tasks : storeResults[s].kind = "rejected"
    /\ IF \E s \in tasks : storeResults[s].kind = "rejected"
       THEN /\ phase' = "threw"
            /\ response' = [kind |-> "rejected", message |-> FailedToScrape]
            /\ UNCHANGED stageVars
       ELSE LET successful == Cardinality({s \in tasks : Succeeded(storeResults[s])})
                total == SumSeq([i \in 1..Cardinality(tasks) |->
                                   CountOf(storeResults[OrderOf(tasks)[i]])])
            IN  /\ successfulStores' = successful
                /\ totalProducts' = total
                /\ filteredResults' = storeResults
                /\ IF options.topN # 0 /\ total > 0
                   THEN phase' = "topN" /\ StageBegins(storeResults)
                   ELSE IF options.filter /\ total > 0
                   THEN phase' = "nlFilter" /\ StageBegins(storeResults)
                   ELSE phase' = "sort"
                        /\ UNCHANGED <<stageResults, pending, llmFailed>>
                /\ UNCHANGED <<filterSummary, response>>
    /\ UNCHANGED <<fixture, extractVars, fetchVars, configVars, entry, options, tasks, scrapeVars>>

\* step 5: filterProductsByRelevance answers for store s
TopNReply(s) ==
    /\ phase = "topN"
    /\ s \in pending
    /\ \E reply \in LLMReplies :
          LET filtered == FilterProductsByRelevance(
                              storeResults[s].products, options.topN, reply)
          IN  /\ stageResults' = [stageResults EXCEPT
                                     ![s] = WithFiltered(storeResults[s], filtered)]
              /\ llmFailed' = IF filtered.failed
                              THEN llmFailed \cup {<<"topN", s>>} ELSE llmFailed
    /\ pending' = pending \ {s}
    /\ UNCHANGED <<fixture, extractVars, fetchVars, configVars, entry, options, tasks, scrapeVars, phase,
                   successfulStores, totalProducts, filteredResults,
                   filterSummary, response>>

\* step 5 ends: the filtered array replaces filteredResults; step 6 begins, or
\* step 7. Step 6 maps storeResults again and overwrites filteredResults before
\* anything reads it, so the array of step 5 is recorded only when step 6 does
\* not run.
TopNJoin ==
    /\ phase = "topN"
    /\ pending = {}
    /\ filterSummary' = Some("topN")
    /\ IF options.filter /\ totalProducts > 0
       THEN /\ phase' = "nlFilter"
            /\ StageBegins(storeResults)
            /\ UNCHANGED filteredResults
       ELSE /\ phase' = "sort"
            /\ filteredResults' = stageResults
            /\ UNCHANGED <<stageResults, pending, llmFailed>>
    /\ UNCHANGED <<fixture, extractVars, fetchVars, configVars, entry, options, tasks, scrapeVars,
                   successfulStores, totalProducts, response>>

\* step 6: applyNaturalLanguageFilter answers for store s
NLReply(s) ==
    /\ phase = "nlFilter"
    /\ s \in pending
    /\ \E reply \in LLMReplies :
          LET filtered == ApplyNaturalLanguageFilter(storeResults[s].products, reply)
          IN  /\ stageResults' = [stageResults EXCEPT
                                     ![s] = WithFiltered(storeResults[s], filtered)]
              /\ llmFailed' = IF filtered.failed
                              THEN llmFailed \cup {<<"nlFilter", s>>} ELSE llmFailed
    /\ pending' = pending \ {s}
    /\ UNCHANGED <<fixture, extractVars, fetchVars, configVars, entry, options, tasks, scrapeVars, phase,
                   successfulStores, totalProducts, filteredResults,
                   filterSummary, response>>

\* step 6 ends
NLJoin ==
    /\ phase = "nlFilter"
    /\ pending = {}
    /\ filteredResults' = stageResults
    /\ filterSummary' = Some("filter")
    /\ phase' = "sort"
    /\ UNCHANGED <<fixture, extractVars, fetchVars, configVars, entry, options, tasks, scrapeVars,
                   successfulStores, totalProducts, stageResults, pending,
                   llmFailed, response>>

\* filteredResults as the array the code holds, in the order of searchUrls
AsArray(results) ==
    [i \in 1..Cardinality(tasks) |-> results[OrderOf(tasks)[i]]]

\* step 7 and the return: sortProductsBySimilarity answers (the call is not
\* inside a try block: if it throws, searchAllStores throws)
SortReply ==
    /\ phase = "sort"
    /\ \E reply \in LLMReplies :
          LET filteredArr == AsArray(filteredResults)
              sorted == SortProductsBySimilarity(
                            [i \in 1..Len(filteredArr) |->
                               [store |-> filteredArr[i].store,
                                products |-> filteredArr[i].products]], reply)
              finalResults == [i \in 1..Len(filteredArr) |->
                                 WithSorted(filteredArr[i], sorted.stores)]
          IN  /\ llmFailed' = IF sorted.called /\ sorted.failed
                              THEN llmFailed \cup {<<"sort", 0>>} ELSE llmFailed
              /\ IF sorted.threw
                 THEN /\ phase' = "threw"
                      /\ response' = [kind |-> "rejected", message |-> "sort"]
                 ELSE /\ phase' = "returned"
                      /\ response' = FleetResult(finalResults, successfulStores,
                                                 options, filterSummary)
    /\ UNCHANGED <<fixture, extractVars, fetchVars, configVars, entry, options, tasks, scrapeVars,
                   successfulStores, totalProducts, filteredResults,
                   stageResults, pending, filterSummary>>

Next ==
    \/ \E opts \in SearchOptionSets : SearchAllStores(opts)
    \/ \E d \in Stores : SearchInStore(d)
    \/ \E s \in Stores : Launched(s)
    \/ \E s \in Stores : Goto(s)
    \/ \E s \in Stores : Fallback(s)
    \/ \E s \in Stores : PageLoaded(s)
    \/ StoreReturn
    \/ Barrier
    \/ \E s \in Stores : TopNReply(s)
    \/ TopNJoin
    \/ \E s \in Stores : NLReply(s)
    \/ NLJoin
    \/ SortReply

Spec == Init /\ [][Next]_vars

\* ------------------------------------------- extraction and normalization
\* extractProductList is applied to a page snapshot
ExtractPage ==
    /\ xpc = "page"
    /\ extracted' = ExtractRecords(html)
    /\ xpc' = "extracted"
    /\ UNCHANGED <<searchVars, fetchVars, configVars, html, normalized>>

\* normalizeProducts is applied to the products extracted
NormalizePage ==
    /\ xpc = "extracted"
    /\ normalized' = NormalizeRecords(extracted)
    /\ xpc' = "normalized"
    /\ UNCHANGED <<searchVars, fetchVars, configVars, html, extracted>>

InitExtract ==
    /\ FleetFixture
    /\ \A s \in Stores : descriptor[s] = "ok"
    /\ Idle
    /\ xpc = "page"
    /\ html \in Snapshots
    /\ extracted = <<>>
    /\ normalized = <<>>
    /\ NoFetch
    /\ NewLLMConfig

NextExtract == ExtractPage \/ NormalizePage

ExtractSpec == InitExtract /\ [][NextExtract]_vars

\* ----------------------------------------------- one single-site scrape
\* searchInStore against one descriptor with pagination enabled and no page
\* budget, over sites whose last page may link back to the first
InitScrape ==
    /\ descriptor \in {f \in [Stores -> DescriptorStates] :
                          \A s \in Stores \ {1} : f[s] = "missing"}
    /\ storeName = [s \in Stores |-> s]
    /\ pagination = [s \in Stores |-> PaginationOn]
    /\ \E n \in 1..MaxSitePages, k \in {0, StoreItems}, m \in 0..MaxTotal,
          c \in BOOLEAN :
          site = [s \in Stores |->
                    [pages |-> n, items |-> k, total |-> m, cycle |-> c]]
    /\ Idle
    /\ NoExtraction
    /\ NoFetch
    /\ NewLLMConfig

NextScrape ==
    \/ \E d \in Stores : SearchInStore(d)
    \/ \E s \in Stores : TaskStep(s)
    \/ StoreReturn

\* every launch and every page.goto answers or fails (page.goto within its
\* timeout of 30 seconds), and the pause between pages ends
ScrapeSpec ==
    /\ InitScrape
    /\ [][NextScrape]_vars
    /\ \A s \in Stores : WF_vars(TaskStep(s))
    /\ WF_vars(StoreReturn)

\* ------------------------------------------------ one scrapeUrl call, closely
\* PlaywrightService.scrapeUrl after `await this.initialize()`, one action per
\* awaited Playwright call. Every call may fail (the page or the browser is
\* gone); a waitForSelector fails by timing out when the page does not match
\* the selector.
InitFetch ==
    /\ FleetFixture
    /\ \A s \in Stores : descriptor[s] = "ok"
    /\ Idle
    /\ NoExtraction
    /\ NewLLMConfig
    /\ fpc = "newContext"
    /\ fopts \in FetchOptionSets
    /\ dom \in SUBSET SelectorNames
    /\ openContexts = 0
    /\ waited = <<>>
    /\ delayed = 0
    /\ totalHeight = 0
    /\ scrollCount = 0
    /\ docHeight \in {0, 300, 4100}
    /\ scrollHeight = 0
    /\ fresult = NoFetchResult

\* an error thrown inside the try block reaches the catch block
Throws(step) ==
    /\ fpc' = "catch"
    /\ fresult' = FetchResult("error", step, Undefined, Undefined)

\* an error thrown before the try block leaves scrapeUrl as it is
Escapes(step) ==
    /\ fpc' = "threw"
    /\ fresult' = FetchResult("rejected", step, Undefined, Undefined)

\* where scrapeUrl goes on after the navigation, the waits and the scroll
AfterScroll(o) == IF o.selector # Undefined THEN "waitForSelector" ELSE "content"
AfterWaits(o) == IF o.scroll # Some(FALSE) THEN "autoScroll" ELSE AfterScroll(o)
AfterNavigation(o) ==
    IF Len(o.waitForSelectors) > 0 THEN "waitForSelectors" ELSE "waitForTimeout"

\* const context = await this.browser.newContext(...)
NewContext ==
    /\ fpc = "newContext"
    /\ \/ /\ openContexts' = openContexts + 1
          /\ fpc' = "newPage"
          /\ UNCHANGED fresult
       \/ /\ Escapes("newContext")
          /\ UNCHANGED openContexts
    /\ UNCHANGED <<searchVars, extractVars, configVars, fopts, dom, waited,
                   delayed, scrollVars>>

\* const page = await context.newPage(), before the try block
NewPage ==
    /\ fpc = "newPage"
    /\ \/ fpc' = "goto" /\ UNCHANGED fresult
       \/ Escapes("newPage")
    /\ UNCHANGED <<searchVars, extractVars, configVars, fopts, dom, openContexts,
                   waited, delayed, scrollVars>>

\* page.goto with 'domcontentloaded'; its catch goes on to the fallback
NavigateFirst ==
    /\ fpc = "goto"
    /\ fpc' \in {AfterNavigation(fopts), "fallback"}
    /\ UNCHANGED <<searchVars, extractVars, configVars, fopts, dom, openContexts,
                   waited, delayed, scrollVars, fresult>>

\* page.goto with 'networkidle'
NavigateFallback ==
    /\ fpc = "fallback"
    /\ \/ fpc' = AfterNavigation(fopts) /\ UNCHANGED fresult
       \/ Throws("goto")
    /\ UNCHANGED <<searchVars, extractVars, configVars, fopts, dom, openContexts,
                   waited, delayed, scrollVars>>

OnSelectorTimeoutThrows == "throw"
\* the catch around every waitForSelector of the loop only logs
OnSelectorTimeout == "continue"

\* one turn of `for (const selector of options.waitForSelectors)`
WaitForSelectors ==
    /\ fpc = "waitForSelectors"
    /\ LET selector == fopts.waitForSelectors[Len(waited) + 1]
           outcome == IF selector \in dom THEN "found" ELSE "timeout"
       IN  IF outcome = "timeout" /\ OnSelectorTimeout = "throw"
           THEN Throws("waitForSelector") /\ UNCHANGED waited
           ELSE /\ waited' = Append(waited, outcome)
                /\ fpc' = IF Len(waited) + 1 = Len(fopts.waitForSelectors)
                          THEN AfterWaits(fopts) ELSE "waitForSelectors"
                /\ UNCHANGED fresult
    /\ UNCHANGED <<searchVars, extractVars, configVars, fopts, dom, openContexts,
                   delayed, scrollVars>>

\* await page.waitForTimeout(options?.waitTime || 3000)
WaitForTimeout ==
    /\ fpc = "waitForTimeout"
    /\ \/ /\ delayed' = IF fopts.waitTime # 0 THEN fopts.waitTime
                                               ELSE DefaultWaitTime
          /\ fpc' = AfterWaits(fopts)
          /\ UNCHANGED fresult
       \/ Throws("waitForTimeout") /\ UNCHANGED delayed
    /\ UNCHANGED <<searchVars, extractVars, configVars, fopts, dom, openContexts,
                   waited, scrollVars>>

ScrollDoneUncapped(total, height, count) == total >= height
\* autoScroll: totalHeight >= scrollHeight || scrollCount >= maxScrolls
ScrollDone(total, height, count) == total >= height \/ count >= MaxScrolls

\* autoScroll: one tick of the interval timer, after which the page may load
\* more content; or page.evaluate fails
ScrollTick ==
    /\ fpc = "autoScroll"
    /\ \/ /\ scrollHeight' = docHeight
          /\ totalHeight' = totalHeight + Distance
          /\ scrollCount' = scrollCount + 1
          /\ fpc' = IF ScrollDone(totalHeight + Distance, docHeight,
                                  scrollCount + 1)
                    THEN "settle" ELSE "autoScroll"
          /\ \E g \in {0, Growth} :
                /\ docHeight + g <= MaxHeight
                /\ docHeight' = docHeight + g
          /\ UNCHANGED fresult
       \/ Throws("autoScroll") /\ UNCHANGED scrollVars
    /\ UNCHANGED <<searchVars, extractVars, configVars, fopts, dom, openContexts,
                   waited, delayed>>

\* autoScroll: await page.waitForTimeout(500)
ScrollSettle ==
    /\ fpc = "settle"
    /\ \/ fpc' = AfterScroll(fopts) /\ UNCHANGED fresult
       \/ Throws("autoScroll")
    /\ UNCHANGED <<searchVars, extractVars, configVars, fopts, dom, openContexts,
                   waited, delayed, scrollVars>>

\* the wait for options.selector, found or not
ExtraSelector ==
    /\ fpc = "waitForSelector"
    /\ fpc' = "content"
    /\ UNCHANGED <<searchVars, extractVars, configVars, fopts, dom, openContexts,
                   waited, delayed, scrollVars, fresult>>

\* const html = await page.content()
ReadContent ==
    /\ fpc = "content"
    /\ \/ /\ fresult' = FetchResult("content", "", Some(dom), Undefined)
          /\ fpc' = "textContent"
       \/ Throws("content")
    /\ UNCHANGED <<searchVars, extractVars, configVars, fopts, dom, openContexts,
                   waited, delayed, scrollVars>>

\* text = await page.textContent('body') || '', '' when it throws
ReadText ==
    /\ fpc = "textContent"
    /\ \E text \in {"body", ""} :
          fresult' = [fresult EXCEPT !.text = Some(text)]
    /\ fpc' = "title"
    /\ UNCHANGED <<searchVars, extractVars, configVars, fopts, dom, openContexts,
                   waited, delayed, scrollVars>>

\* const title = await page.title()
ReadTitle ==
    /\ fpc = "title"
    /\ \/ fpc' = "close" /\ UNCHANGED fresult
       \/ Throws("title")
    /\ UNCHANGED <<searchVars, extractVars, configVars, fopts, dom, openContexts,
                   waited, delayed, scrollVars>>

\* await context.close(); return { html, text, url, title }
CloseAndReturn ==
    /\ fpc = "close"
    /\ openContexts' = openContexts - 1
    /\ fpc' = "returned"
    /\ fresult' = [fresult EXCEPT !.kind = "returned"]
    /\ UNCHANGED <<searchVars, extractVars, configVars, fopts, dom, waited,
                   delayed, scrollVars>>

\* the catch block: await context.close(); throw new Error('Failed to scrape')
CloseAndThrow ==
    /\ fpc = "catch"
    /\ openContexts' = openContexts - 1
    /\ fpc' = "threw"
    /\ fresult' = [fresult EXCEPT !.kind = "rejected"]
    /\ UNCHANGED <<searchVars, extractVars, configVars, fopts, dom, waited,
                   delayed, scrollVars>>

NextFetch ==
    \/ NewContext
    \/ NewPage
    \/ NavigateFirst
    \/ NavigateFallback
    \/ WaitForSelectors
    \/ WaitForTimeout
    \/ ScrollTick
    \/ ScrollSettle
    \/ ExtraSelector
    \/ ReadContent
    \/ ReadText
    \/ ReadTitle
    \/ CloseAndReturn
    \/ CloseAndThrow

\* every Playwright call answers or fails within its timeout, and the interval
\* timer of autoScroll keeps firing until it is cleared
FetchSpec == InitFetch /\ [][NextFetch]_vars /\ WF_vars(NextFetch)

\* -------------------------------------------------- the llm-config routes
MaxBatch == 2           \* entries of the config object of a batch request

\* { ...this.config[operation] }: the own properties of the value; those of a
\* string are its characters, none of them named provider or model
Spread(value) ==
    IF value.kind = "object" THEN value
    ELSE OperationConfig(Undefined, Undefined)

\* LLMConfig.setProvider
SetProvider(config, operation, provider) ==
    [config EXCEPT ![operation] = [Spread(@) EXCEPT !.provider = Some(provider)]]

\* LLMConfig.setModel
SetModel(config, operation, model) ==
    [config EXCEPT ![operation] = [Spread(@) EXCEPT !.model = Some(model)]]

\* LLMConfig.updateConfig: this.config = { ...this.config, ...newConfig }
UpdateConfig(config, newConfig) ==
    [operation \in LLMOperations |->
        IF operation \in DOMAIN newConfig
        THEN StringValue(newConfig[operation]) ELSE config[operation]]

\* LLMConfig.getOperationConfig(operation).provider
ProviderOf(config, operation) ==
    IF config[operation].kind = "object"
    THEN config[operation].provider ELSE Undefined

\* LLMProviderFactory.getProviderInstance
GetProviderInstance(provider) ==
    IF provider # Undefined /\ provider[1] \in LLMProviders
    THEN "instance" ELSE "Provider no soportado"

\* LLMProviderFactory.getProviderForOperation
GetProviderForOperation(config, operation) ==
    GetProviderInstance(ProviderOf(config, operation))

\* what the requests carry
OperationParams == LLMOperations \cup {"unknown_operation"}
ProviderValues == LLMProviders \cup {"claude"}
ModelValues == {"gpt-4o-mini"}
BatchBodies ==
    UNION {[D -> ProviderValues] :
             D \in {E \in SUBSET OperationParams : Cardinality(E) <= MaxBatch}}

\* PUT /:operation with body { provider, model }
PutOperation(operation, provider, model) ==
    /\ fpc = "off" /\ xpc = "off" /\ phase = "idle"
    /\ IF provider = Undefined /\ model = Undefined
       THEN httpStatus' = 400 /\ UNCHANGED llmConfig
       ELSE IF operation \notin LLMOperations
       THEN httpStatus' = 400 /\ UNCHANGED llmConfig
       ELSE IF provider # Undefined /\ provider[1] \notin LLMProviders
       THEN httpStatus' = 400 /\ UNCHANGED llmConfig
       ELSE LET withProvider ==
                    IF provider # Undefined
                    THEN SetProvider(llmConfig, operation, provider[1])
                    ELSE llmConfig
            IN  /\ llmConfig' = IF model # Undefined
                                THEN SetModel(withProvider, operation, model[1])
                                ELSE withProvider
                /\ httpStatus' = 200
    /\ UNCHANGED <<searchVars, extractVars, fetchVars>>

\* POST /batch with body { config: newConfig }, or without the field
PostBatch(body) ==
    /\ fpc = "off" /\ xpc = "off" /\ phase = "idle"
    /\ IF body = Undefined
       THEN httpStatus' = 400 /\ UNCHANGED llmConfig
       ELSE LET newConfig == body[1]
            IN  IF \E operation \in DOMAIN newConfig :
                      \/ operation \notin LLMOperations
                      \/ newConfig[operation] \notin LLMProviders
                THEN httpStatus' = 400 /\ UNCHANGED llmConfig
                ELSE /\ llmConfig' = UpdateConfig(llmConfig, newConfig)
                     /\ httpStatus' = 200
    /\ UNCHANGED <<searchVars, extractVars, fetchVars>>

\* POST /reset
PostReset ==
    /\ fpc = "off" /\ xpc = "off" /\ phase = "idle"
    /\ llmConfig' = DefaultConfig
    /\ httpStatus' = 200
    /\ UNCHANGED <<searchVars, extractVars, fetchVars>>

InitConfig ==
    /\ FleetFixture
    /\ \A s \in Stores : descriptor[s] = "ok"
    /\ Idle
    /\ NoExtraction
    /\ NoFetch
    /\ NewLLMConfig

NextConfig ==
    \/ \E operation \in OperationParams,
          provider \in {Undefined} \cup {Some(v) : v \in ProviderValues},
          model \in {Undefined} \cup {Some(m) : m \in ModelValues} :
          PutOperation(operation, provider, model)
    \/ \E body \in {Undefined} \cup {Some(b) : b \in BatchBodies} : PostBatch(body)
    \/ PostReset

ConfigSpec == InitConfig /\ [][NextConfig]_vars

\* ====================================================================
\* The claims
\* ====================================================================
Returned == phase = "returned"
FleetReturned == entry = "searchAllStores" /\ phase = "returned"
StoreReturned == entry = "searchInStore" /\ phase = "returned"

\* the entry of store s in the array a fleet result carries
Entry(s) ==
    LET hits == {i \in 1..Len(response.stores) : response.stores[i].domain = s}
    IN  response.stores[CHOOSE i \in hits : TRUE]

\* C1: in a fleet search over three sites of which exactly one times out under
\* both load strategies, the result counts 2 successful stores of 3 and the
\* failing site's outcome has success = false and no products.
C1_OneTimeoutOfThree ==
    (/\ FleetReturned
     /\ Cardinality(tasks) = 3
     /\ \A s \in tasks : descriptor[s] = "ok"
     /\ Cardinality({s \in tasks : timedOut[s]}) = 1)
    => /\ response.totalStores = 3
       /\ response.successfulStores = 2
       /\ \A s \in tasks : timedOut[s] =>
             /\ ~Entry(s).success
             /\ Entry(s).products = <<>>

C1_Failing ==
    /\ FleetReturned
    /\ Cardinality(tasks) = 3
    /\ \A s \in tasks : descriptor[s] = "ok"
    /\ Cardinality({s \in tasks : timedOut[s]}) = 1
    /\ response.successfulStores = 3

\* C2: every per-site outcome has products = [] and an error when success is
\* false, and never has success = true together with an error.
WellFormedOutcome(r) ==
    r.kind = "store" =>
        /\ ~r.success => (r.products = <<>> /\ r.error # Undefined)
        /\ ~(r.success /\ r.error # Undefined)

FetchedPages(s) ==
    Flatten([p \in 1..fetches[s] |-> ExtractProductList(s, p, site[s].items)])

OwnOutcome(s) ==
    IF descriptor[s] # "ok"
    THEN [kind |-> "store", store |-> storeName[s], domain |-> s,
          products |-> <<>>, count |-> 0, success |-> FALSE,
          error |-> Some(NoConfigMessage)]
    ELSE IF timedOut[s]
    THEN [kind |-> "store", store |-> storeName[s], domain |-> s,
          products |-> <<>>, count |-> 0, success |-> TRUE,
          error |-> Undefined]
    ELSE [kind |-> "store", store |-> storeName[s], domain |-> s,
          products |-> NormalizeProducts(FetchedPages(s)),
          count |-> Len(FetchedPages(s)), success |-> TRUE,
          error |-> Undefined]

C4_PageBudget ==
    \A s \in Stores :
        (pagination[s].present /\ pagination[s].max_pages >= 1)
            => fetches[s] <= pagination[s].max_pages

C4_Witness ==
    \E s \in Stores :
        /\ pc[s] = "done"
        /\ pagination[s].present /\ pagination[s].enabled
        /\ pagination[s].max_pages >= 1
        /\ site[s].pages > pagination[s].max_pages
        /\ storeResults[s].success
        /\ storeResults[s].count > 0
        /\ fetches[s] = pagination[s].max_pages

\* C5: with pagination enabled and page budget 2, against a site of 5 pages of
\* 10 valid items each, the scrape returns exactly 20 records from exactly 2
\* fetched pages.
C5_TwentyFromTwoPages ==
    \A s \in Stores :
        (/\ StoreReturned
         /\ s \in tasks
         /\ descriptor[s] = "ok"
         /\ ~timedOut[s]
         /\ pagination[s] = [present |-> TRUE, enabled |-> TRUE, max_pages |-> 2]
         /\ site[s].pages = 5 /\ site[s].items = 10)
        => /\ Len(response.products) = 20
           /\ fetches[s] = 2

\* C6: with pagination disabled, or with no pagination section, a scrape
\* issues exactly one page fetch.
C6_DisabledOneFetch ==
    \A s \in Stores :
        ~TruthyFlag(PaginationEnabled(pagination[s])) =>
            /\ fetches[s] <= 1
            /\ (pc[s] # "idle" /\ descriptor[s] = "ok") => fetches[s] = 1

C6_Witness ==
    \E s \in Stores :
        /\ pc[s] = "done"
        /\ ~TruthyFlag(PaginationEnabled(pagination[s]))
        /\ site[s].pages > 1
        /\ storeResults[s].success
        /\ storeResults[s].count > 0
        /\ fetches[s] = 1

\* C7: with a per-call page budget maxPages = M, every site's scrape of that
\* search fetches at most M pages, also when the descriptor's max_pages is
\* larger or absent.
C7_CallBudget ==
    (entry = "searchAllStores" /\ options.maxPages >= 1)
        => \A s \in Stores : fetches[s] <= options.maxPages

C7_Witness ==
    /\ FleetReturned
    /\ options.maxPages >= 1
    /\ \E s \in tasks :
          /\ pagination[s].present /\ pagination[s].enabled
          /\ pagination[s].max_pages > options.maxPages
          /\ site[s].pages > options.maxPages
          /\ storeResults[s].count > 0
          /\ fetches[s] = options.maxPages

\* C8: when the relevance filter fails while topN or a natural-language filter
\* is applied, searchAllStores does not fail, returns the site's original,
\* unfiltered product list, and the result says it was not filtered.
FilterFailedFor(s) == <<"topN", s>> \in llmFailed \/ <<"nlFilter", s>> \in llmFailed

C8_FilterFailureIndicated ==
    (/\ entry = "searchAllStores"
     /\ phase \in {"returned", "threw"}
     /\ \E s \in tasks : FilterFailedFor(s))
    => /\ phase = "returned"
       /\ response.filtered = FALSE
       /\ \A s \in tasks : FilterFailedFor(s) =>
             Entry(s).products = storeResults[s].products

\* C9: when the similarity reordering fails, searchAllStores still returns a
\* fleet result, and every site's product list in it is the list that was
\* handed to the reordering, unchanged.
SortFailed == <<"sort", 0>> \in llmFailed

C10_TotalIsSum ==
    FleetReturned =>
        response.totalProducts =
            SumSeq([i \in 1..Len(response.stores) |->
                      Len(response.stores[i].products)])

\* C11: when a page fetch of a site's scrape fails under both load strategies,
\* the store outcome has success = false, no products and the error.
C11_FetchFailureOutcome ==
    \A s \in tasks :
        (pc[s] = "done" /\ timedOut[s]) =>
            /\ storeResults[s].success = FALSE
            /\ storeResults[s].products = <<>>
            /\ storeResults[s].error # Undefined

\* C12: once searchAllStores is past its await of the scrapes, every site's
\* task has settled with an outcome; the totals are those of all the outcomes
\* and the fleet result carries one entry for each task.
C12_SingleBarrier ==
    (entry = "searchAllStores" /\ phase \notin {"idle", "scraping"}) =>
        /\ \A s \in tasks : pc[s] = "done" /\ storeResults[s].kind = "store"
        /\ phase # "threw" =>
              /\ successfulStores =
                    Cardinality({s \in tasks : storeResults[s].success})
              /\ totalProducts =
                    SumSeq([i \in 1..Cardinality(tasks) |->
                              storeResults[OrderOf(tasks)[i]].count])
        /\ phase = "returned" =>
              /\ response.totalStores = Cardinality(tasks)
              /\ response.successfulStores = successfulStores

C12_Witness ==
    /\ FleetReturned
    /\ Cardinality(tasks) = NumStores
    /\ \E a, b \in tasks : timedOut[a] /\ ~timedOut[b] /\ storeResults[b].count > 0

\* C13: however the concurrent fetches interleave, at most one browser is ever
\* launched.
C13_OneBrowser == launches <= 1

\* C14: a fetch makes at most two page.goto calls: the first with
\* 'domcontentloaded', the second with 'networkidle' and only after the first
\* failed; when the second fails too nothing more is tried and the scrape of
\* that store ends with the failure.
C14_TwoAttempts ==
    \A s \in Stores :
        LET a == navAttempts[s]
        IN  /\ Len(a) <= 2
            /\ Len(a) >= 1 => a[1].waitUntil = "domcontentloaded"
            /\ Len(a) = 2 => /\ a[1].outcome = "failed"
                             /\ a[2].waitUntil = "networkidle"
            /\ timedOut[s] => (pc[s] = "done" /\ a = <<>>)

C14_Witness ==
    \E s, u \in Stores :
        /\ timedOut[s] /\ pc[s] = "done"
        /\ pc[u] = "render"
        /\ Len(navAttempts[u]) = 2
        /\ navAttempts[u][2].outcome = "ok"

\* C15: a fleet result carries exactly one outcome for every registered site,
\* totalStores is the number of registered sites, and a site whose descriptor
\* cannot be loaded has an outcome with success = false.
C15_OnePerRegistered ==
    FleetReturned =>
        /\ response.totalStores = NumStores
        /\ \A s \in Stores :
              /\ Cardinality({i \in 1..Len(response.stores) :
                                 response.stores[i].domain = s}) = 1
              /\ descriptor[s] # "ok" => ~Entry(s).success

\* C16: with both topN and a natural-language filter, every successful site's
\* returned list went through both: it holds at most topN products (no call
\* of the model failing).
C16_BothFiltersApplied ==
    (FleetReturned /\ options.topN # 0 /\ options.filter /\ llmFailed = {}) =>
        \A s \in tasks :
            Entry(s).success => Len(Entry(s).products) <= options.topN

\* the one item of a page snapshot that holds exactly one, with a title
OneItemPage ==
    /\ html.container
    /\ Len(html.items) = 1
    /\ Trim(html.items[1].title) # <<>>

\* C17: extraction and normalization turn the price text "<colon sign>49.950"
\* into 49950 and "2.499e5" into 249900, and drop an item whose price text
\* has no number in it.
C17_PriceExamples ==
    (xpc = "normalized" /\ OneItemPage) =>
        /\ html.items[1].priceText = ColonPrice =>
              (Len(normalized) = 1 /\ normalized[1].price = 49950)
        /\ html.items[1].priceText = ScientificPrice =>
              (Len(normalized) = 1 /\ normalized[1].price = 249900)
        /\ html.items[1].priceText = NonNumericPrice => normalized = <<>>

\* C18: every product extractProductList returns has a non-empty name and a
\* parsed price above 0, and the products returned are exactly the items that
\* have both, in page order: the others are dropped.
Kept(page) ==
    SelectSeq(page.items,
              LAMBDA item : /\ Trim(item.title) # <<>>
                            /\ Positive(ExtractPrice(item.priceText)))

C18_ExtractedValid ==
    xpc \in {"extracted", "normalized"} =>
        /\ \A i \in 1..Len(extracted) :
              /\ extracted[i].product_name # <<>>
              /\ Positive(extracted[i].price)
        /\ html.container => Len(extracted) = Len(Kept(html))
        /\ ~html.container => extracted = <<>>

C18_Witness ==
    /\ xpc = "extracted"
    /\ Len(html.items) = 2
    /\ Len(extracted) = 1
    /\ html.items[1].priceText = NonNumericPrice
    /\ html.items[2].priceText = PlainPrice

\* C19: every normalized record has an integer price above 0 and a trimmed,
\* non-empty name, and there is one for every product that passed extraction.
C19_NormalizedValid ==
    xpc = "normalized" =>
        /\ Len(normalized) = Len(extracted)
        /\ \A i \in 1..Len(normalized) :
              /\ normalized[i].price \in Nat
              /\ normalized[i].price > 0
              /\ normalized[i].product_name # <<>>
              /\ Trim(normalized[i].product_name) = normalized[i].product_name

\* C20: a scrape whose fetches all succeed and whose pages hold no valid item
\* ends as a success with count 0, no products and no error.
C20_EmptyIsSuccess ==
    \A s \in tasks :
        (pc[s] = "done" /\ descriptor[s] = "ok" /\ ~timedOut[s]
         /\ site[s].items = 0) =>
            /\ storeResults[s].kind = "store"
            /\ storeResults[s].success
            /\ storeResults[s].count = 0
            /\ storeResults[s].products = <<>>
            /\ storeResults[s].error = Undefined
            /\ StoreReturned => response = storeResults[s]

C20_Witness ==
    /\ StoreReturned
    /\ \E s \in tasks :
          /\ descriptor[s] = "ok" /\ ~timedOut[s] /\ site[s].items = 0
          /\ fetches[s] = 1
          /\ response.success /\ response.count = 0

\* C21: with pagination enabled, no page budget and no total-page limit
\* reached, a page whose next control resolves to a URL is followed by the
\* fetch of that URL, with the page index incremented by one.
C21_NextPageFetched ==
    [][\A s \in Stores :
          (/\ pc[s] = "render"
           /\ pc'[s] # "render"
           /\ TruthyFlag(PaginationEnabled(pagination[s]))
           /\ pagination[s].max_pages = 0
           /\ options.maxPages = 0
           /\ site[s].total = 0
           /\ HasNextButton(site[s], currentUrl[s]))
          => /\ pc'[s] = "goto"
             /\ currentUrl'[s] = NextPageOf(site[s], currentUrl[s])
             /\ pageNumber'[s] = pageNumber[s] + 1
             /\ fetches'[s] = fetches[s] + 1]_vars

\* C22: when the page shows a total-page count, the scrape never fetches a
\* page beyond it, even when the last counted page still carries a next
\* control with a URL.
C22_TotalPagesLimit ==
    \A s \in Stores : site[s].total >= 1 => fetches[s] <= site[s].total

C22_Witness ==
    \E s \in Stores :
        /\ pc[s] = "done"
        /\ TruthyFlag(PaginationEnabled(pagination[s]))
        /\ site[s].total >= 1
        /\ site[s].pages > site[s].total
        /\ storeResults[s].success
        /\ storeResults[s].count > 0
        /\ fetches[s] = site[s].total

\* C23: within one site's scrape at most one page fetch is in flight at any
\* time, and a fetch starts only when every page fetched before it has been
\* extracted and its pagination decision made.
InFlight(s) == fetches[s] - processed[s]

Occurrences(q, x) == Cardinality({i \in 1..Len(q) : q[i] = x})

IsPermutation(a, b) ==
    /\ Len(a) = Len(b)
    /\ \A i \in 1..Len(a) : Occurrences(a, a[i]) = Occurrences(b, a[i])

C24_OnlyReorders ==
    (FleetReturned /\ llmFailed = {}) =>
        \A s \in tasks :
            IsPermutation(Entry(s).products, filteredResults[s].products)

\* C25: a wait selector that never appears is not fatal: scrapeUrl waits on
\* every configured selector, whatever the earlier ones gave, and returns the
\* page's DOM; without selectors it applies the flat delay instead.
PastWaits ==
    fpc \in {"autoScroll", "settle", "waitForSelector", "content",
             "textContent", "title", "close", "returned"}

C25_MissingSelectorNotFatal ==
    /\ fresult.at # "waitForSelector"
    /\ PastWaits =>
          IF fopts.waitForSelectors # <<>>
          THEN /\ Len(waited) = Len(fopts.waitForSelectors)
               /\ \A i \in 1..Len(waited) :
                     waited[i] = "found" <=> fopts.waitForSelectors[i] \in dom
               /\ delayed = 0
          ELSE /\ waited = <<>>
               /\ delayed = (IF fopts.waitTime # 0 THEN fopts.waitTime
                                                    ELSE DefaultWaitTime)
    /\ fpc = "returned" => fresult.html = Some(dom)

C25_Witness ==
    /\ fpc = "returned"
    /\ Len(waited) = 2
    /\ waited[1] = "timeout"
    /\ waited[2] = "found"
    /\ fresult.html = Some(dom)

\* C26: the incremental scroll always ends: it makes at most 20 steps of 200
\* pixels and stops earlier once the scrolled distance has reached the
\* document height, also when the document grows on every step.
C26_ScrollTerminates ==
    /\ [](/\ scrollCount <= MaxScrolls
          /\ totalHeight = scrollCount * Distance
          /\ (fpc = "autoScroll" /\ scrollCount > 0) =>
                (totalHeight < scrollHeight /\ scrollCount < MaxScrolls))
    /\ (fpc = "autoScroll") ~> (fpc # "autoScroll")

C26_Witness ==
    /\ fpc = "settle"
    /\ scrollCount = MaxScrolls
    /\ totalHeight < scrollHeight
    /\ docHeight >= 300 + MaxScrolls * Growth

\* C28: every browser context scrapeUrl creates is closed before scrapeUrl
\* returns or throws, on the success path and on every failure path.
C28_ContextClosed ==
    fpc \in {"returned", "threw"} => openContexts = 0

\* C27: every single-site scrape ends: when each launch and each navigation
\* answers or fails, searchInStore returns or throws, also against a site
\* whose every page carries a next link (a cycle of pages) under a descriptor
\* with pagination enabled and no page budget.
C27_ScrapeTerminates ==
    (entry = "searchInStore") ~> (phase \in {"returned", "threw"})

C27_Witness ==
    /\ StoreReturned
    /\ \E s \in tasks :
          /\ TruthyFlag(PaginationEnabled(pagination[s]))
          /\ pagination[s].max_pages = 0
          /\ options.maxPages = 0
          /\ site[s].cycle
          /\ site[s].total = 0
          /\ response.success
          /\ response.count > 0

\* C29: after any sequence of requests to the llm-config routes, every LLM
\* operation maps to a configuration record whose provider is openai or
\* gemini and whose model is set, so resolving the provider of an operation
\* never fails with 'Provider no soportado'.
C29_ConfigWellFormed ==
    \A operation \in LLMOperations :
        /\ llmConfig[operation].kind = "object"
        /\ llmConfig[operation].provider \in {Some(v) : v \in LLMProviders}
        /\ llmConfig[operation].model # Undefined
        /\ GetProviderForOperation(llmConfig, operation) = "instance"

\* C30: filterProductsByRelevance returns a list whose every element is an
\* element of its input list and whose length is at most topN, when the model
\* answers (with any index list, also one with out-of-range indices) and when
\* the call falls back after an error.
C30_FilterWithinInput ==
    phase = "topN" =>
        \A s \in tasks \ pending :
            /\ Len(stageResults[s].products) <= options.topN
            /\ \A i \in 1..Len(stageResults[s].products) :
                  \E j \in 1..Len(storeResults[s].products) :
                     stageResults[s].products[i] = storeResults[s].products[j]

C30_Witness ==
    /\ phase = "topN"
    /\ \E s, r \in tasks \ pending :
          /\ <<"topN", s>> \notin llmFailed
          /\ Len(storeResults[s].products) > options.topN
          /\ Len(stageResults[s].products) = options.topN
          /\ <<"topN", r>> \in llmFailed
          /\ Len(storeResults[r].products) > options.topN
          /\ Len(stageResults[r].products) = options.topN

====
